---- MODULE Spec2Model ----
(***************************************************************************)
(* Sensor API (app/main.py, app/connection.py): the connection manager,    *)
(* the schema bootstrap at startup, and the HTTP handlers over the two     *)
(* tables sensors and sensor_data.                                         *)
(*                                                                         *)
(* The storage engine is an external collaborator.  It is modelled by what *)
(* the handlers rely on: AUTO_INCREMENT ids that are never reused (also    *)
(* not after a rollback), DEFAULT CURRENT_TIMESTAMP as the value of a      *)
(* non-decreasing clock of one-second resolution that is constant within   *)
(* one statement, the FOREIGN KEY of sensor_data.sensor_id, and            *)
(* transactions that are atomic with respect to each other.  Any call on   *)
(* a session (creation, execute, commit, rollback, close) may fail; which  *)
(* ones do is an input of every request.                                   *)
(***************************************************************************)
EXTENDS Integers, Sequences, FiniteSets, TLC

\* ------------------------------------------------------------------ bounds
MaxSensors == 2     \* sensor ids handed out by AUTO_INCREMENT
MaxReadings == 3    \* sensor_data ids handed out by AUTO_INCREMENT
MaxClock == 1       \* seconds the clock can advance
MaxBatch == 2       \* items of one bulk request
MaxThreads == 2     \* threads calling the connection manager
MaxEngines == 3     \* engines constructed in one process

\* ------------------------------------------------------- program constants
InitRetries == 10   \* init_db: retries = 10
InitDelay == 3      \* init_db: delay = 3

\* -------------------------------------------------------------- input sets
Names == {"Temp1", "Temp2"}
Values == {10}
SensorIdInputs == 1..(MaxSensors + 1)
SensorInputs == [name : Names, description : {"Lobby"}, unit : {"C"}]
DataInputs == [sensor_id : SensorIdInputs, value : Values]
\* a query bound: absent (None), the empty string (falsy), or a timestamp
NoBound == -1
EmptyBound == -2
BoundInputs == {NoBound, EmptyBound} \cup (0..MaxClock)

VARIABLES
    phase,          \* "start" | "startup" | "serving" | "shutdown" | "stopped" | "aborted"
    boot,           \* init_db's locals and what it logged
    sensors,        \* table sensors: id -> row
    readings,       \* table sensor_data: set of rows
    nextSensorId,   \* AUTO_INCREMENT of sensors
    nextDataId,     \* AUTO_INCREMENT of sensor_data
    now,            \* CURRENT_TIMESTAMP
    last,           \* the last request and what its caller observed
    engine,         \* connection._engine (0 is None)
    SessionLocal,   \* connection._SessionLocal: whether made, and its bind
    engines,        \* every engine constructed so far: id -> disposed?
    createLog,      \* times "Creating database engine..." was logged
    pc,             \* per thread: position inside the connection manager
    local,          \* per thread: the call in progress or just completed
    released        \* times close_db disposed an engine

vars == <<phase, boot, sensors, readings, nextSensorId, nextDataId, now, last,
          engine, SessionLocal, engines, createLog, pc, local, released>>

dbVars == <<sensors, readings, nextSensorId, nextDataId, now>>
connVars == <<engine, SessionLocal, engines, createLog, pc, local, released>>

\* ------------------------------------------------------------- exceptions
NoDetail == [msg |-> "", ids |-> <<>>]
NoExc == [type |-> "none", status |-> 0, detail |-> NoDetail]
HTTPException(code, d) == [type |-> "HTTPException", status |-> code, detail |-> d]
OperationalError(what) ==
    [type |-> "OperationalError", status |-> 0, detail |-> [msg |-> what, ids |-> <<>>]]
IntegrityError ==
    [type |-> "IntegrityError", status |-> 0, detail |-> [msg |-> "foreign key", ids |-> <<>>]]

\* which session calls fail if the request reaches them
Faults == [session : BOOLEAN, failAt : 0..3, commit : BOOLEAN,
           rollback : BOOLEAN, close : BOOLEAN]
\* the exception classes "except Exception" catches
ExceptionTypes == {"HTTPException", "OperationalError", "IntegrityError"}
NoFault == [session |-> FALSE, failAt |-> 0, commit |-> FALSE,
            rollback |-> FALSE, close |-> FALSE]

\* ------------------------------------- connection.py: the cached globals
\* _SessionLocal: None, or a sessionmaker bound to an engine (0: bind=None)
NoFactory == [made |-> FALSE, bind |-> 0]
sessionmaker(e) == [made |-> TRUE, bind |-> e]

\* the event loop runs the startup and shutdown events, the thread pool the
\* handlers
Main == 0
Workers == 1..MaxThreads
Threads == {Main} \cup Workers
\* a thread's call into the manager: the entry point, get_session_factory's
\* local "engine", what was returned, and what was true when it returned
NoCall == [top |-> "none", engine |-> 0, ret |-> 0, done |-> FALSE,
           stale |-> FALSE, current |-> 0, epoch |-> 0]

\* ---------------------------------------------------------------- helpers
RECURSIVE sorted_reversed(_)
\* mutant of sorted: descending
sorted_reversed(S) ==
    IF S = {} THEN <<>>
    ELSE LET m == CHOOSE x \in S : \A y \in S : x >= y
         IN <<m>> \o sorted_reversed(S \ {m})

RECURSIVE sorted(_)
\* Python's sorted() over a set of integers: ascending
sorted(S) ==
    IF S = {} THEN <<>>
    ELSE LET m == CHOOSE x \in S : \A y \in S : x <= y
         IN <<m>> \o sorted(S \ {m})

Range(s) == {s[i] : i \in DOMAIN s}


\* ------------------------------------------------- connection.py: get_db
\* The context manager around one unit of work whose body ended with bodyExc
\* (NoExc: it ran to its end or returned early).  trace lists the calls made
\* on the session in order; raised is what leaves the with statement.
\* mutant of get_db: the except clause re-raises without db.rollback()
get_db_no_rollback(bodyExc, f) ==
    IF f.session
    THEN [trace |-> <<>>, committed |-> FALSE,
          orig |-> OperationalError("session"),
          raised |-> OperationalError("session"), faults |-> {"session"}]
    ELSE LET commitTried == bodyExc.type = "none"
             orig == IF ~commitTried THEN bodyExc
                     ELSE IF f.commit THEN OperationalError("commit") ELSE NoExc
         IN [trace |-> <<"open">>
                       \o (IF commitTried
                           THEN <<IF f.commit THEN "commit_failed" ELSE "commit">>
                           ELSE <<>>)
                       \o <<IF f.close THEN "close_failed" ELSE "close">>,
             committed |-> commitTried /\ ~f.commit,
             orig |-> orig,
             raised |-> IF f.close THEN OperationalError("close") ELSE orig,
             faults |-> (IF commitTried /\ f.commit THEN {"commit"} ELSE {})
                        \cup (IF f.close THEN {"close"} ELSE {})]

get_db(bodyExc, f) ==
    IF f.session
    THEN \* get_session_factory() or SessionLocal() raises before the try
         [trace |-> <<>>, committed |-> FALSE,
          orig |-> OperationalError("session"),
          raised |-> OperationalError("session"), faults |-> {"session"}]
    ELSE LET commitTried == bodyExc.type = "none"
             orig == IF ~commitTried THEN bodyExc
                     ELSE IF f.commit THEN OperationalError("commit") ELSE NoExc
             inExcept == orig.type # "none"
             afterExcept == IF ~inExcept THEN NoExc
                            ELSE IF f.rollback THEN OperationalError("rollback")
                            ELSE orig
         IN [trace |-> <<"open">>
                       \o (IF commitTried
                           THEN <<IF f.commit THEN "commit_failed" ELSE "commit">>
                           ELSE <<>>)
                       \o (IF inExcept
                           THEN <<IF f.rollback THEN "rollback_failed" ELSE "rollback">>
                           ELSE <<>>)
                       \o <<IF f.close THEN "close_failed" ELSE "close">>,
             committed |-> commitTried /\ ~f.commit,
             orig |-> orig,
             raised |-> IF f.close THEN OperationalError("close") ELSE afterExcept,
             faults |-> (IF commitTried /\ f.commit THEN {"commit"} ELSE {})
                        \cup (IF inExcept /\ f.rollback THEN {"rollback"} ELSE {})
                        \cup (IF f.close THEN {"close"} ELSE {})]

\* FastAPI: what the caller of a handler receives
Respond(exc, okStatus) ==
    IF exc.type = "none" THEN [status |-> okStatus, detail |-> NoDetail]
    ELSE IF exc.type = "HTTPException" THEN [status |-> exc.status, detail |-> exc.detail]
    ELSE [status |-> 500, detail |-> [msg |-> "Internal Server Error", ids |-> <<>>]]

\* what a handler's body leaves behind when it ends: the exception (if any),
\* the tables as the session sees them, the counters, the value returned
Body(exc, S, R, ns, nd, ret, hit, ins) ==
    [exc |-> exc, sensors |-> S, readings |-> R, nextSensorId |-> ns,
     nextDataId |-> nd, ret |-> ret, hit |-> hit, inserted |-> ins]

Fail(exc, S, R, ns, nd, hit, ins) == Body(exc, S, R, ns, nd, <<>>, hit, ins)

NoRequest ==
    [op |-> "none", path |-> 0, arg |-> <<>>, status |-> 0, detail |-> NoDetail,
     ret |-> <<>>, trace |-> <<>>, committed |-> FALSE, orig |-> NoExc,
     raised |-> NoExc, escaped |-> NoExc, before |-> {}, sensorsBefore |-> <<>>,
     faults |-> {}, inserted |-> FALSE, bind |-> 0]

\* no request is being answered
Idle == last = NoRequest

\* the response of the request in `last` has been sent; the next is accepted
Deliver ==
    /\ last # NoRequest
    /\ last' = NoRequest
    /\ UNCHANGED <<phase, boot, dbVars, connVars>>

\* One request served inside "with get_db() as db": the body's work is
\* committed or rolled back as get_db decides and the response is recorded.
Serve(op, path, arg, okStatus, b, f) ==
    LET s == get_db(b.exc, f)
        ran == ~f.session
        r == Respond(s.raised, okStatus)
    IN /\ sensors' = IF s.committed THEN b.sensors ELSE sensors
       /\ readings' = IF s.committed THEN b.readings ELSE readings
       /\ nextSensorId' = IF ran THEN b.nextSensorId ELSE nextSensorId
       /\ nextDataId' = IF ran THEN b.nextDataId ELSE nextDataId
       /\ last' = [op |-> op, path |-> path, arg |-> arg,
                   status |-> r.status, detail |-> r.detail,
                   ret |-> IF s.raised.type = "none" THEN b.ret ELSE <<>>,
                   trace |-> s.trace, committed |-> s.committed,
                   orig |-> s.orig, raised |-> s.raised, escaped |-> s.raised,
                   before |-> readings, sensorsBefore |-> sensors,
                   faults |-> s.faults \cup (IF ran /\ b.hit THEN {"execute"} ELSE {}),
                   inserted |-> ran /\ b.inserted, bind |-> SessionLocal.bind]
       /\ UNCHANGED <<phase, boot, now, connVars>>

\* ------------------------------------------------------ main.py: handlers
\* failAt = k: the k-th db.execute of the handler raises (0: none does)
SensorRow(id, s) ==
    [id |-> id, name |-> s.name, description |-> s.description, unit |-> s.unit]

PutSensor(S, id, row) ==
    [i \in DOMAIN S \cup {id} |-> IF i = id THEN row ELSE S[i]]

DataRow(id, sid, v) == [id |-> id, sensor_id |-> sid, value |-> v, timestamp |-> now]

create_sensor(sensor, failAt) ==
    LET id == nextSensorId
        S1 == PutSensor(sensors, id, SensorRow(id, sensor))
    IN IF failAt = 1
       THEN Fail(OperationalError("execute"), sensors, readings, nextSensorId,
                 nextDataId, TRUE, FALSE)
       ELSE IF failAt = 2
       THEN Fail(OperationalError("execute"), S1, readings, id + 1, nextDataId,
                 TRUE, TRUE)
       ELSE IF id \notin DOMAIN S1
       THEN Fail(HTTPException(500, [msg |-> "Failed to create sensor", ids |-> <<>>]),
                 S1, readings, id + 1, nextDataId, FALSE, TRUE)
       ELSE Body(NoExc, S1, readings, id + 1, nextDataId, S1[id], FALSE, TRUE)

update_sensor(sensor_id, sensor, failAt) ==
    LET S1 == PutSensor(sensors, sensor_id, SensorRow(sensor_id, sensor))
    IN IF failAt = 1
       THEN Fail(OperationalError("execute"), sensors, readings, nextSensorId,
                 nextDataId, TRUE, FALSE)
       ELSE IF sensor_id \notin DOMAIN sensors
       THEN Fail(HTTPException(404, [msg |-> "Sensor not found", ids |-> <<>>]),
                 sensors, readings, nextSensorId, nextDataId, FALSE, FALSE)
       ELSE IF failAt = 2
       THEN Fail(OperationalError("execute"), sensors, readings, nextSensorId,
                 nextDataId, TRUE, FALSE)
       ELSE IF failAt = 3
       THEN Fail(OperationalError("execute"), S1, readings, nextSensorId,
                 nextDataId, TRUE, FALSE)
       ELSE Body(NoExc, S1, readings, nextSensorId, nextDataId, S1[sensor_id],
                 FALSE, FALSE)

\* INSERT INTO sensor_data: the rows get consecutive ids and the statement's
\* timestamp; the FOREIGN KEY rejects a sensor_id that is no sensor
InsertData(items) ==
    LET n == Len(items)
        rows == {DataRow(nextDataId + i - 1, items[i].sensor_id, items[i].value) :
                    i \in 1..n}
    IN IF \E i \in 1..n : items[i].sensor_id \notin DOMAIN sensors
       THEN [exc |-> IntegrityError, readings |-> readings, nextDataId |-> nextDataId]
       ELSE [exc |-> NoExc, readings |-> readings \cup rows,
             nextDataId |-> nextDataId + n]

\* mutant of SensorExists: the existence check is dropped
SensorExists_unchecked(sensor_id) == TRUE

\* "SELECT * FROM sensors WHERE id = :id" returned a row
SensorExists(sensor_id) == sensor_id \in DOMAIN sensors

\* mutant of PathMismatch: the comparison is dropped
PathMismatch_unchecked(sensor_id, data) == FALSE

PathMismatch(sensor_id, data) == data.sensor_id # sensor_id

post_sensor_data(sensor_id, data, failAt) ==
    LET ins == InsertData(<<[sensor_id |-> sensor_id, value |-> data.value]>>)
        data_id == nextDataId
        created == {r \in ins.readings : r.id = data_id}
    IN IF failAt = 1
       THEN Fail(OperationalError("execute"), sensors, readings, nextSensorId,
                 nextDataId, TRUE, FALSE)
       ELSE IF ~SensorExists(sensor_id)
       THEN Fail(HTTPException(404, [msg |-> "Sensor not found", ids |-> <<>>]),
                 sensors, readings, nextSensorId, nextDataId, FALSE, FALSE)
       ELSE IF PathMismatch(sensor_id, data)
       THEN Fail(HTTPException(400, [msg |-> "Sensor ID mismatch", ids |-> <<>>]),
                 sensors, readings, nextSensorId, nextDataId, FALSE, FALSE)
       ELSE IF failAt = 2
       THEN Fail(OperationalError("execute"), sensors, readings, nextSensorId,
                 nextDataId, TRUE, FALSE)
       ELSE IF ins.exc.type # "none"
       THEN Fail(ins.exc, sensors, readings, nextSensorId, nextDataId, FALSE, TRUE)
       ELSE IF failAt = 3
       THEN Fail(OperationalError("execute"), sensors, ins.readings, nextSensorId,
                 ins.nextDataId, TRUE, TRUE)
       ELSE IF created = {}
       THEN Fail(HTTPException(500, [msg |-> "Failed to create sensor data", ids |-> <<>>]),
                 sensors, ins.readings, nextSensorId, ins.nextDataId, FALSE, TRUE)
       ELSE Body(NoExc, sensors, ins.readings, nextSensorId, ins.nextDataId,
                 CHOOSE r \in created : TRUE, FALSE, TRUE)

RECURSIVE OrderByIdAsc(_)
\* mutant of OrderByIdDesc: ORDER BY id (ascending)
OrderByIdAsc(rows) ==
    IF rows = {} THEN <<>>
    ELSE LET m == CHOOSE r \in rows : \A q \in rows : q.id >= r.id
         IN <<m>> \o OrderByIdAsc(rows \ {m})

RECURSIVE OrderByIdDesc(_)
\* ORDER BY id DESC over a set of sensor_data rows
OrderByIdDesc(rows) ==
    IF rows = {} THEN <<>>
    ELSE LET m == CHOOSE r \in rows : \A q \in rows : q.id <= r.id
         IN <<m>> \o OrderByIdDesc(rows \ {m})

\* SELECT sd.* FROM sensor_data sd INNER JOIN (SELECT sensor_id, MAX(timestamp)
\* ... WHERE sensor_id IN ids GROUP BY sensor_id) latest ON sd.sensor_id =
\* latest.sensor_id AND sd.timestamp = latest.max_ts
LatestRows(R, ids) ==
    {r \in R : /\ r.sensor_id \in ids
               /\ \A q \in R : q.sensor_id = r.sensor_id => q.timestamp <= r.timestamp}

\* response[sensor_id].append(row) over the rows ORDER BY sensor_id, id DESC
GroupBySensor(rows) ==
    [s \in {r.sensor_id : r \in rows} |->
        OrderByIdDesc({r \in rows : r.sensor_id = s})]

MissingSensors(sensor_ids) == sensor_ids \ (sensor_ids \cap DOMAIN sensors)

MissingDetail(missing) == [msg |-> "Sensors not found", ids |-> sorted(missing)]

post_multiple_sensor_data(data_list, failAt) ==
    LET sensor_ids == {data_list[i].sensor_id : i \in DOMAIN data_list}
        missing_sensors == MissingSensors(sensor_ids)
        ins == InsertData(data_list)
    IN IF failAt = 1
       THEN Fail(OperationalError("execute"), sensors, readings, nextSensorId,
                 nextDataId, TRUE, FALSE)
       ELSE IF missing_sensors # {}
       THEN Fail(HTTPException(404, MissingDetail(missing_sensors)),
                 sensors, readings, nextSensorId, nextDataId, FALSE, FALSE)
       ELSE IF failAt = 2
       THEN Fail(OperationalError("execute"), sensors, readings, nextSensorId,
                 nextDataId, TRUE, FALSE)
       ELSE IF ins.exc.type # "none"
       THEN Fail(ins.exc, sensors, readings, nextSensorId, nextDataId, FALSE, TRUE)
       ELSE IF failAt = 3
       THEN Fail(OperationalError("execute"), sensors, ins.readings, nextSensorId,
                 ins.nextDataId, TRUE, TRUE)
       ELSE Body(NoExc, sensors, ins.readings, nextSensorId, ins.nextDataId,
                 GroupBySensor(LatestRows(ins.readings, sensor_ids)), FALSE, TRUE)

\* ------------------------------------------------------ requests (actions)
Batches == UNION {[1..n -> DataInputs] : n \in 0..MaxBatch}

CreateSensor(sensor, f) ==
    /\ phase = "serving"
    /\ Idle
    /\ nextSensorId <= MaxSensors
    /\ Serve("create_sensor", 0, sensor, 201, create_sensor(sensor, f.failAt), f)

UpdateSensor(sensor_id, sensor, f) ==
    /\ phase = "serving"
    /\ Idle
    /\ Serve("update_sensor", sensor_id, sensor, 200,
             update_sensor(sensor_id, sensor, f.failAt), f)

PostSensorData(sensor_id, data, f) ==
    /\ phase = "serving"
    /\ Idle
    /\ nextDataId <= MaxReadings
    /\ Serve("post_sensor_data", sensor_id, data, 201,
             post_sensor_data(sensor_id, data, f.failAt), f)

PostMultipleSensorData(data_list, f) ==
    /\ phase = "serving"
    /\ Idle
    /\ nextDataId + Len(data_list) <= MaxReadings + 1
    /\ IF data_list = <<>>
       THEN \* "if not data_list: return {}" before any session is opened
            /\ last' = [NoRequest EXCEPT !.op = "post_multiple_sensor_data",
                                         !.arg = data_list, !.status = 200,
                                         !.before = readings,
                                         !.sensorsBefore = sensors]
            /\ UNCHANGED <<phase, boot, dbVars, connVars>>
       ELSE Serve("post_multiple_sensor_data", 0, data_list, 200,
                  post_multiple_sensor_data(data_list, f.failAt), f)

\* a second passes
Tick ==
    /\ phase = "serving"
    /\ now < MaxClock
    /\ now' = now + 1
    /\ UNCHANGED <<phase, boot, sensors, readings, nextSensorId, nextDataId, last,
                   connVars>>

BootFirstTry ==
    [retries |-> InitRetries, attempts |-> 1, warnings |-> 0, slept |-> 0,
     result |-> "ok"]

\* the process right after a startup that succeeded at once
InitServing ==
    /\ phase = "serving"
    /\ boot = BootFirstTry
    /\ sensors = <<>>
    /\ readings = {}
    /\ nextSensorId = 1
    /\ nextDataId = 1
    /\ now = 0
    /\ last = NoRequest
    /\ engine = 1
    /\ SessionLocal = sessionmaker(1)
    /\ engines = <<FALSE>>
    /\ createLog = 1
    /\ pc = [t \in Threads |-> "idle"]
    /\ local = [t \in Threads |->
                  IF t = Main
                  THEN [NoCall EXCEPT !.top = "startup", !.engine = 1, !.ret = 1,
                                      !.done = TRUE, !.current = 1]
                  ELSE NoCall]
    /\ released = 0

\* requests served while every call on the session succeeds
Next ==
    \/ \E s \in SensorInputs : CreateSensor(s, NoFault)
    \/ \E id \in SensorIdInputs, s \in SensorInputs : UpdateSensor(id, s, NoFault)
    \/ \E id \in SensorIdInputs, d \in DataInputs : PostSensorData(id, d, NoFault)
    \/ \E b \in Batches : PostMultipleSensorData(b, NoFault)
    \/ Tick
    \/ Deliver

Spec == InitServing /\ [][Next]_vars

\* --------------------------------------------------- main.py: Health, ping
\* mutant of HealthCatches: only a failing probe query is caught
HealthCatches_query_only(exc) == exc.detail.msg = "execute"

\* "except Exception as e"
HealthCatches(exc) == exc.type \in ExceptionTypes

health_status(probe) ==
    IF probe.type # "none"
    THEN [api |-> "degraded", db |-> "error"]
    ELSE [api |-> "healthy", db |-> "healthy"]

Health(f) ==
    LET s == get_db(IF f.failAt = 1 THEN OperationalError("execute") ELSE NoExc, f)
        caught == s.raised.type # "none" /\ HealthCatches(s.raised)
        escaped == IF s.raised.type # "none" /\ ~caught THEN s.raised ELSE NoExc
        r == Respond(escaped, 200)
    IN /\ phase = "serving"
       /\ Idle
       /\ last' = [NoRequest EXCEPT
                     !.op = "Health", !.status = r.status, !.detail = r.detail,
                     !.ret = IF escaped.type = "none"
                             THEN health_status(IF caught THEN s.raised ELSE NoExc)
                             ELSE <<>>,
                     !.trace = s.trace, !.committed = s.committed,
                     !.orig = s.orig, !.raised = s.raised, !.escaped = escaped,
                     !.before = readings, !.sensorsBefore = sensors,
                     !.faults = s.faults \cup (IF ~f.session /\ f.failAt = 1
                                               THEN {"execute"} ELSE {}),
                     !.bind = SessionLocal.bind]
       /\ UNCHANGED <<phase, boot, dbVars, connVars>>

\* every session call of the request may fail
NextSession ==
    \/ \E f \in Faults : Health(f)
    \/ \E s \in SensorInputs, f \in Faults : CreateSensor(s, f)
    \/ \E id \in SensorIdInputs, s \in SensorInputs, f \in Faults : UpdateSensor(id, s, f)
    \/ Deliver

SessionSpec == InitServing /\ [][NextSession]_vars

\* ------------------------------------------------ main.py: range queries
\* mutant of FromOk: "timestamp > :from_timestamp"
FromOk_exclusive(ts, from_timestamp) ==
    from_timestamp \in {NoBound, EmptyBound} \/ ts > from_timestamp

\* "if from_timestamp: query += ' AND timestamp >= :from_timestamp'": None
\* and the empty string add no condition
FromOk(ts, from_timestamp) ==
    from_timestamp \in {NoBound, EmptyBound} \/ ts >= from_timestamp

\* "if to_timestamp: query += ' AND timestamp <= :to_timestamp'"
ToOk(ts, to_timestamp) ==
    to_timestamp \in {NoBound, EmptyBound} \/ ts <= to_timestamp

RECURSIVE OrderByTimestampDesc(_)
\* ORDER BY timestamp DESC: every order of the rows in which timestamps do
\* not increase (SQL leaves the order of equal timestamps open)
OrderByTimestampDesc(rows) ==
    IF rows = {} THEN {<<>>}
    ELSE UNION {{<<r>> \o s : s \in OrderByTimestampDesc(rows \ {r})} :
                  r \in {q \in rows : \A p \in rows : p.timestamp <= q.timestamp}}

get_sensor_data(sensor_id, from_timestamp, to_timestamp, data, failAt) ==
    IF failAt = 1
    THEN Fail(OperationalError("execute"), sensors, readings, nextSensorId,
              nextDataId, TRUE, FALSE)
    ELSE IF ~SensorExists(sensor_id)
    THEN Fail(HTTPException(404, [msg |-> "Sensor not found", ids |-> <<>>]),
              sensors, readings, nextSensorId, nextDataId, FALSE, FALSE)
    ELSE IF failAt = 2
    THEN Fail(OperationalError("execute"), sensors, readings, nextSensorId,
              nextDataId, TRUE, FALSE)
    ELSE Body(NoExc, sensors, readings, nextSensorId, nextDataId, data, FALSE, FALSE)

SensorDataRows(sensor_id, from_timestamp, to_timestamp) ==
    {r \in readings : /\ r.sensor_id = sensor_id
                      /\ FromOk(r.timestamp, from_timestamp)
                      /\ ToOk(r.timestamp, to_timestamp)}

AllDataRows(from_timestamp, to_timestamp) ==
    {r \in readings : /\ FromOk(r.timestamp, from_timestamp)
                      /\ ToOk(r.timestamp, to_timestamp)}

\* response[sensor_id].append(row) over the rows in the order fetched
GroupInOrder(data) ==
    [s \in {data[i].sensor_id : i \in DOMAIN data} |->
        SelectSeq(data, LAMBDA r : r.sensor_id = s)]

get_all_sensor_data(from_timestamp, to_timestamp, data, failAt) ==
    IF failAt = 1
    THEN Fail(OperationalError("execute"), sensors, readings, nextSensorId,
              nextDataId, TRUE, FALSE)
    ELSE Body(NoExc, sensors, readings, nextSensorId, nextDataId,
              GroupInOrder(data), FALSE, FALSE)

GetSensorData(sensor_id, from_timestamp, to_timestamp, f) ==
    /\ phase = "serving"
    /\ Idle
    /\ \E data \in OrderByTimestampDesc(
                      SensorDataRows(sensor_id, from_timestamp, to_timestamp)) :
          Serve("get_sensor_data", sensor_id,
                [from_timestamp |-> from_timestamp, to_timestamp |-> to_timestamp],
                200,
                get_sensor_data(sensor_id, from_timestamp, to_timestamp, data,
                                f.failAt), f)

GetAllSensorData(from_timestamp, to_timestamp, f) ==
    /\ phase = "serving"
    /\ Idle
    /\ \E data \in OrderByTimestampDesc(AllDataRows(from_timestamp, to_timestamp)) :
          Serve("get_all_sensor_data", 0,
                [from_timestamp |-> from_timestamp, to_timestamp |-> to_timestamp],
                200,
                get_all_sensor_data(from_timestamp, to_timestamp, data, f.failAt), f)

\* the spec's example sensor
ExampleSensor == [name |-> "Temp1", description |-> "Lobby", unit |-> "C"]

\* readings are ingested and queried while every call on the session
\* succeeds; the sensors all carry the same fields, which no query reads
NextQuery ==
    \/ CreateSensor(ExampleSensor, NoFault)
    \/ \E id \in SensorIdInputs, d \in DataInputs : PostSensorData(id, d, NoFault)
    \/ \E b \in Batches : PostMultipleSensorData(b, NoFault)
    \/ Tick
    \/ Deliver
    \/ \E id \in SensorIdInputs, from \in BoundInputs, to \in BoundInputs :
          GetSensorData(id, from, to, NoFault)
    \/ \E from \in BoundInputs, to \in BoundInputs : GetAllSensorData(from, to, NoFault)
    \/ Deliver

QuerySpec == InitServing /\ [][NextQuery]_vars

\* ------------------- connection.py and startup/shutdown: one step at a time
\* The event loop (Main) runs startup_event and shutdown_event; the thread
\* pool (Workers) runs the handlers, which reach the manager through get_db.
\* Every read or write of a global is a step of its own.
BootStart ==
    [retries |-> InitRetries, attempts |-> 0, warnings |-> 0, slept |-> 0,
     result |-> "running"]

InitProcess ==
    /\ phase = "start"
    /\ boot = BootStart
    /\ sensors = <<>>
    /\ readings = {}
    /\ nextSensorId = 1
    /\ nextDataId = 1
    /\ now = 0
    /\ last = NoRequest
    /\ engine = 0
    /\ SessionLocal = NoFactory
    /\ engines = <<>>
    /\ createLog = 0
    /\ pc = [t \in Threads |-> "idle"]
    /\ local = [t \in Threads |-> NoCall]
    /\ released = 0

Goto(t, where) == pc' = [pc EXCEPT ![t] = where]
Enter(t, fn) == local' = [local EXCEPT ![t] = [NoCall EXCEPT !.top = fn, !.epoch = released]]
appVars == <<dbVars, last>>

\* startup_event: "init_db()", whose first statement is "engine = get_engine()"
startup_event ==
    /\ phase = "start"
    /\ phase' = "startup"
    /\ boot' = BootStart
    /\ Goto(Main, "ge_check")
    /\ Enter(Main, "init_db")
    /\ UNCHANGED <<engine, SessionLocal, engines, createLog, released, appVars>>

\* handlers run only once the startup event has completed
ServingStarted_early == phase \in {"start", "startup", "serving"}

ServingStarted == phase = "serving"

Call(t, fn, where) ==
    /\ ServingStarted
    /\ pc[t] = "idle"
    /\ Goto(t, where)
    /\ Enter(t, fn)
    /\ UNCHANGED <<phase, boot, engine, SessionLocal, engines, createLog, released, appVars>>

CallGetEngine(t) == Call(t, "get_engine", "ge_check")
CallGetDb(t) == Call(t, "get_db", "gsf_check")

\* get_engine: "if _engine is None:"
GeCheck(t) ==
    /\ pc[t] = "ge_check"
    /\ Goto(t, IF engine = 0 THEN "ge_create" ELSE "ge_return")
    /\ UNCHANGED <<phase, boot, engine, SessionLocal, engines, createLog, local, released, appVars>>

\* get_engine: log, "_engine = create_engine(...)"
GeCreate(t) ==
    /\ pc[t] = "ge_create"
    /\ Len(engines) < MaxEngines
    /\ engines' = Append(engines, FALSE)
    /\ engine' = Len(engines) + 1
    /\ createLog' = createLog + 1
    /\ Goto(t, "ge_return")
    /\ UNCHANGED <<phase, boot, SessionLocal, local, released, appVars>>

\* get_engine: "return _engine", to a handler, to init_db, or to
\* get_session_factory
GeReturn(t) ==
    /\ pc[t] = "ge_return"
    /\ local' = [local EXCEPT ![t].engine = engine,
                              ![t].epoch = released,
                              ![t].done = (local[t].top = "get_engine")]
    /\ Goto(t, CASE local[t].top = "get_engine" -> "idle"
                 [] local[t].top = "init_db" -> "init_loop"
                 [] OTHER -> "gsf_create")
    /\ UNCHANGED <<phase, boot, engine, SessionLocal, engines, createLog, released, appVars>>

\* init_db: "if retries == 0: ... raise"
Exhausted_early(retries) == retries <= 1

Exhausted(retries) == retries = 0

InitOutcomes == {"ok", "OperationalError", "Exception"}

\* init_db: one turn of "while retries > 0", create_all ending as outcome
init_db(outcome) ==
    /\ phase = "startup"
    /\ pc[Main] = "init_loop"
    /\ boot.retries > 0
    /\ CASE outcome = "ok" ->
              /\ boot' = [boot EXCEPT !.attempts = @ + 1, !.result = "ok"]
              /\ Goto(Main, "gsf_check")
              /\ Enter(Main, "startup")
              /\ UNCHANGED phase
         [] outcome = "Exception" ->
              /\ boot' = [boot EXCEPT !.attempts = @ + 1, !.result = "error"]
              /\ Goto(Main, "idle")
              /\ phase' = "aborted"
              /\ UNCHANGED local
         [] OTHER ->
              LET left == boot.retries - 1
                  b == [boot EXCEPT !.attempts = @ + 1, !.warnings = @ + 1,
                                    !.retries = left]
              IN  IF Exhausted(left)
                  THEN /\ boot' = [b EXCEPT !.result = "exhausted"]
                       /\ Goto(Main, "idle")
                       /\ phase' = "aborted"
                       /\ UNCHANGED local
                  ELSE IF left > 0
                  THEN /\ boot' = [b EXCEPT !.slept = @ + InitDelay]
                       /\ UNCHANGED <<pc, local, phase>>
                  ELSE \* the loop condition fails: init_db returns
                       /\ boot' = [b EXCEPT !.slept = @ + InitDelay,
                                            !.result = "returned"]
                       /\ Goto(Main, "gsf_check")
                       /\ Enter(Main, "startup")
                       /\ UNCHANGED phase
    /\ UNCHANGED <<engine, SessionLocal, engines, createLog, released, appVars>>

\* get_session_factory: "if _SessionLocal is None:" then "engine = get_engine()"
GsfCheck(t) ==
    /\ pc[t] = "gsf_check"
    /\ Goto(t, IF ~SessionLocal.made THEN "ge_check" ELSE "gsf_return")
    /\ UNCHANGED <<phase, boot, engine, SessionLocal, engines, createLog, local, released, appVars>>

\* get_session_factory: "_SessionLocal = sessionmaker(..., bind=engine)"
GsfCreate(t) ==
    /\ pc[t] = "gsf_create"
    /\ SessionLocal' = sessionmaker(local[t].engine)
    /\ Goto(t, "gsf_return")
    /\ UNCHANGED <<phase, boot, engine, engines, createLog, local, released, appVars>>

Disposed(e) == e \in DOMAIN engines /\ engines[e]

\* get_session_factory: "return _SessionLocal"; get_db: "db = SessionLocal()"
GsfReturn(t) ==
    /\ pc[t] = "gsf_return"
    /\ local' = [local EXCEPT ![t].ret = SessionLocal.bind,
                              ![t].done = TRUE,
                              ![t].stale = Disposed(SessionLocal.bind),
                              ![t].current = engine,
                              ![t].epoch = released]
    /\ Goto(t, IF local[t].top = "startup" THEN "tables" ELSE "idle")
    /\ UNCHANGED <<phase, boot, engine, SessionLocal, engines, createLog, released, appVars>>

\* startup_event: the two CREATE TABLE IF NOT EXISTS inside "with get_db()"
StartupTables(f) ==
    /\ phase = "startup"
    /\ pc[Main] = "tables"
    /\ LET bodyExc == IF f.failAt \in {1, 2} THEN OperationalError("execute") ELSE NoExc
           s == get_db(bodyExc, f)
       IN  phase' = IF s.raised = NoExc THEN "serving" ELSE "aborted"
    /\ Goto(Main, "idle")
    /\ UNCHANGED <<boot, engine, SessionLocal, engines, createLog, local, released, appVars>>

\* shutdown_event: "close_db()", once the requests in flight have ended
shutdown_event ==
    /\ phase = "serving"
    /\ \A t \in Threads : pc[t] = "idle"
    /\ phase' = "shutdown"
    /\ Goto(Main, "cd_check")
    /\ Enter(Main, "close_db")
    /\ UNCHANGED <<boot, engine, SessionLocal, engines, createLog, released, appVars>>

\* close_db: "if _engine:", "_engine.dispose()"
CdDispose ==
    /\ pc[Main] = "cd_check"
    /\ IF engine # 0
       THEN /\ engines' = [engines EXCEPT ![engine] = TRUE]
            /\ Goto(Main, "cd_clear")
            /\ UNCHANGED phase
       ELSE /\ Goto(Main, "idle")
            /\ phase' = "stopped"
            /\ UNCHANGED engines
    /\ UNCHANGED <<boot, engine, SessionLocal, createLog, local, released, appVars>>

\* close_db: "_engine = None"; _SessionLocal is not assigned
CdClear ==
    /\ pc[Main] = "cd_clear"
    /\ engine' = 0
    /\ released' = released + 1
    /\ phase' = "stopped"
    /\ Goto(Main, "idle")
    /\ UNCHANGED <<boot, SessionLocal, engines, createLog, local, appVars>>

\* the lifespan runs again in the same process (the module stays imported)
Restart ==
    /\ phase = "stopped"
    /\ Len(engines) < MaxEngines
    /\ phase' = "start"
    /\ UNCHANGED <<boot, connVars, appVars>>

NextLife ==
    \/ startup_event
    \/ \E outcome \in InitOutcomes : init_db(outcome)
    \/ \E f \in Faults : StartupTables(f)
    \/ shutdown_event
    \/ CdDispose
    \/ CdClear
    \/ Restart
    \/ \E t \in Workers : CallGetEngine(t)
    \/ \E t \in Workers : CallGetDb(t)
    \/ \E t \in Threads : GeCheck(t)
    \/ \E t \in Threads : GeCreate(t)
    \/ \E t \in Threads : GeReturn(t)
    \/ \E t \in Threads : GsfCheck(t)
    \/ \E t \in Threads : GsfCreate(t)
    \/ \E t \in Threads : GsfReturn(t)

LifeSpec == InitProcess /\ [][NextLife]_vars

\* the event loop keeps running the startup event until it ends
StartupStep ==
    \/ startup_event
    \/ \E outcome \in InitOutcomes : init_db(outcome)
    \/ \E f \in Faults : StartupTables(f)
    \/ GeCheck(Main)
    \/ GeCreate(Main)
    \/ GeReturn(Main)
    \/ GsfCheck(Main)
    \/ GsfCreate(Main)
    \/ GsfReturn(Main)

FairLifeSpec == LifeSpec /\ WF_vars(StartupStep)

\* ================================================================ claims
IsBulk == last.op = "post_multiple_sensor_data"
IsSingle == last.op = "post_sensor_data"
BatchIds == {last.arg[i].sensor_id : i \in DOMAIN last.arg}
BatchMissing == BatchIds \ DOMAIN last.sensorsBefore
Inserted == readings \ last.before
Ascending(s) == \A i \in 1..(Len(s) - 1) : s[i] < s[i + 1]

\* C1: a non-empty bulk ingest that references at least one sensor id that
\* does not exist answers 404, its detail lists exactly the missing ids, each
\* once, in ascending order, and the stored readings are those stored before
\* the call.
C1_BulkAllOrNothing ==
    (IsBulk /\ BatchMissing # {}) =>
        /\ last.status = 404
        /\ last.detail.msg = "Sensors not found"
        /\ Range(last.detail.ids) = BatchMissing
        /\ Ascending(last.detail.ids)
        /\ readings = last.before

\* C1 witness: a rejected two-item batch whose first item names an existing
\* sensor and whose second names a missing one, while readings are stored.
C1_Witness ==
    /\ IsBulk /\ Len(last.arg) = 2
    /\ last.arg[1].sensor_id \in DOMAIN last.sensorsBefore
    /\ last.arg[2].sensor_id \notin DOMAIN last.sensorsBefore
    /\ last.status = 404
    /\ last.detail.ids = <<last.arg[2].sensor_id>>
    /\ last.before # {}

\* C2 as stated: a single ingest whose body.sensor_id differs from the path
\* sensor_id answers 400 and writes nothing, whether or not the path sensor
\* exists.
C2_MismatchAlways400 ==
    (IsSingle /\ last.arg.sensor_id # last.path) =>
        (last.status = 400 /\ readings = last.before)

\* C2 amended: a single ingest whose body.sensor_id differs from the path
\* sensor_id writes nothing and answers 400 when the path sensor exists and
\* 404 when it does not; and the one reading a single ingest creates has the
\* path sensor_id.
C2_MismatchRejected ==
    /\ (IsSingle /\ last.arg.sensor_id # last.path) =>
          /\ readings = last.before
          /\ last.status = IF last.path \in DOMAIN last.sensorsBefore THEN 400 ELSE 404
    /\ (IsSingle /\ last.status = 201) =>
          /\ Inserted = {last.ret}
          /\ last.ret.sensor_id = last.path
    /\ IsSingle => \A r \in Inserted : r.sensor_id = last.path

\* C2 witness: a mismatched body on an existing path sensor was rejected
\* with 400 while readings of that sensor are stored.
C2_Witness ==
    /\ IsSingle /\ last.arg.sensor_id # last.path
    /\ last.path \in DOMAIN last.sensorsBefore
    /\ last.status = 400
    /\ \E r \in readings : r.sensor_id = last.path

BulkOk == IsBulk /\ last.arg # <<>> /\ last.status = 200
OfSensor(R, s) == {r \in R : r.sensor_id = s}
Newest(R) == {r \in R : \A q \in R : q.timestamp <= r.timestamp}
DescendingIds(s) == \A i \in 1..(Len(s) - 1) : s[i].id > s[i + 1].id

\* C3 as stated: a successful bulk ingest returns, for each sensor_id of the
\* batch, a list of exactly one reading: one inserted by this batch that has
\* the newest timestamp of that sensor and, among those, the highest id.
C3_ExactlyOneLatest ==
    BulkOk =>
        /\ DOMAIN last.ret = BatchIds
        /\ \A s \in BatchIds :
              /\ Len(last.ret[s]) = 1
              /\ last.ret[s][1] \in Inserted
              /\ last.ret[s][1] \in Newest(OfSensor(readings, s))
              /\ \A q \in Newest(OfSensor(readings, s)) : q.id <= last.ret[s][1].id

\* C3 amended: a successful bulk ingest returns, for each sensor_id of the
\* batch, the list of all stored readings of that sensor that carry its
\* newest timestamp, ordered by id descending; the first of them was
\* inserted by this batch and has the highest id of that sensor; the list
\* has one element exactly when no other reading of the sensor shares that
\* timestamp.
C3_AllLatestByIdDesc ==
    BulkOk =>
        /\ DOMAIN last.ret = BatchIds
        /\ \A s \in BatchIds :
              /\ Range(last.ret[s]) = Newest(OfSensor(readings, s))
              /\ Len(last.ret[s]) = Cardinality(Newest(OfSensor(readings, s)))
              /\ DescendingIds(last.ret[s])
              /\ last.ret[s][1] \in Inserted
              /\ \A q \in OfSensor(readings, s) : q.id <= last.ret[s][1].id

\* C3 witness: a successful batch with two items of one sensor, answered
\* with a list that also holds an earlier reading of the same second.
C3_Witness ==
    /\ BulkOk
    /\ \E s \in BatchIds :
          /\ Len(last.ret[s]) = 3
          /\ \E i \in 1..3 : last.ret[s][i] \notin Inserted

\* C4: every stored reading belongs to an existing sensor; a single ingest
\* on a path sensor that does not exist, and a bulk ingest that references a
\* sensor that does not exist, answer 404 without reaching the INSERT.
C4_ReferentialIntegrity ==
    /\ \A r \in readings : r.sensor_id \in DOMAIN sensors
    /\ (IsSingle /\ last.path \notin DOMAIN last.sensorsBefore) =>
          (last.status = 404 /\ ~last.inserted /\ readings = last.before)
    /\ (IsBulk /\ BatchMissing # {}) =>
          (last.status = 404 /\ ~last.inserted /\ readings = last.before)

\* C4 witness: readings are stored and an ingest on a missing sensor was
\* answered with 404.
C4_Witness ==
    /\ readings # {}
    /\ IsSingle /\ last.path \notin DOMAIN sensors
    /\ last.status = 404

Degraded == [api |-> "degraded", db |-> "error"]
Healthy == [api |-> "healthy", db |-> "healthy"]

\* C6: the health check never raises: it answers 200 with api "degraded" and
\* db "error" whenever a call of its storage probe failed (session creation,
\* the probe query, commit, rollback or close) and with api "healthy" and db
\* "healthy" when none did; it returns no other pair.
C6_HealthNeverRaises ==
    last.op = "Health" =>
        /\ last.escaped = NoExc
        /\ last.status = 200
        /\ last.ret \in {Degraded, Healthy}
        /\ (last.faults # {}) => last.ret = Degraded
        /\ (last.faults = {}) => last.ret = Healthy

\* C6 witness: a health check whose probe query failed and whose rollback
\* failed too answered degraded/error.
C6_Witness ==
    /\ last.op = "Health"
    /\ last.faults = {"execute", "rollback"}
    /\ last.ret = Degraded
    /\ last.status = 200

HasSession == last.trace # <<>>
Count(s, x) == Cardinality({i \in DOMAIN s : s[i] = x})
Attempts(s, ok, failed) == Count(s, ok) + Count(s, failed)
ErrorInScope == last.orig.type # "none"
TablesUnchanged == sensors = last.sensorsBefore /\ readings = last.before

\* C7 as stated: in every unit of work, a body that completes normally is
\* committed exactly once and not rolled back; an error raised in the scope
\* (by the body or by the commit) rolls the session back, commits nothing and
\* is itself re-raised to the caller; and the session is closed exactly once,
\* last.  (Read with close() succeeding: the claim names no failing close.)
C7_OriginalReraised ==
    (HasSession /\ "close" \notin last.faults) =>
        /\ ~ErrorInScope =>
              (Count(last.trace, "commit") = 1
               /\ Attempts(last.trace, "rollback", "rollback_failed") = 0)
        /\ ErrorInScope =>
              (Count(last.trace, "rollback") = 1
               /\ ~last.committed /\ TablesUnchanged
               /\ last.raised = last.orig)
        /\ Attempts(last.trace, "close", "close_failed") = 1
        /\ last.trace[Len(last.trace)] \in {"close", "close_failed"}

\* C7 amended: in every unit of work, a body that completes normally is
\* committed exactly once and not rolled back; after an error raised in the
\* scope (by the body or by the commit) rollback is called exactly once,
\* nothing of the session's work is committed, and the caller receives the
\* original error unless rollback or close itself raises, in which case it
\* receives that error; close is called exactly once, last, on every path.
C7_SessionLifecycle ==
    HasSession =>
        /\ ~ErrorInScope =>
              (Count(last.trace, "commit") = 1 /\ last.committed
               /\ Attempts(last.trace, "rollback", "rollback_failed") = 0)
        /\ ErrorInScope =>
              (Attempts(last.trace, "rollback", "rollback_failed") = 1
               /\ Count(last.trace, "commit") = 0
               /\ ~last.committed /\ TablesUnchanged
               /\ last.raised =
                    IF "close" \in last.faults THEN OperationalError("close")
                    ELSE IF "rollback" \in last.faults THEN OperationalError("rollback")
                    ELSE last.orig)
        /\ Attempts(last.trace, "close", "close_failed") = 1
        /\ last.trace[Len(last.trace)] \in {"close", "close_failed"}
        /\ \A i \in DOMAIN last.trace :
              last.trace[i] \in {"commit", "commit_failed", "rollback", "rollback_failed"}
                 => i < Len(last.trace)

\* C7 witness: a create-sensor whose commit failed: the insert was rolled
\* back and the commit's error reached the caller.
C7_Witness ==
    /\ last.op = "create_sensor"
    /\ last.trace = <<"open", "commit_failed", "rollback", "close">>
    /\ last.raised = OperationalError("commit")
    /\ last.inserted
    /\ sensors = last.sensorsBefore
    /\ last.status = 500

IsQueryOne == last.op = "get_sensor_data" /\ last.status = 200
IsQueryAll == last.op = "get_all_sensor_data" /\ last.status = 200
Supplied(b) == b >= 0
InRange(r) ==
    /\ Supplied(last.arg.from_timestamp) => last.arg.from_timestamp <= r.timestamp
    /\ Supplied(last.arg.to_timestamp) => r.timestamp <= last.arg.to_timestamp
StrictlyDescending(s) == \A i \in 1..(Len(s) - 1) : s[i].timestamp > s[i + 1].timestamp
NonIncreasing(s) == \A i \in 1..(Len(s) - 1) : s[i].timestamp >= s[i + 1].timestamp
Matching(s) == {r \in OfSensor(readings, s) : InRange(r)}
ExactlyRows(s, rows) == Range(s) = rows /\ Len(s) = Cardinality(rows)

\* C5 as stated: a range query returns exactly the stored readings (of the
\* sensor, resp. of every sensor, grouped by sensor_id) whose timestamp lies
\* within the supplied bounds, bounds included, and each returned list is
\* strictly descending by timestamp.
C5_StrictlyDescending ==
    /\ IsQueryOne =>
          (ExactlyRows(last.ret, Matching(last.path)) /\ StrictlyDescending(last.ret))
    /\ IsQueryAll =>
          /\ DOMAIN last.ret = {r.sensor_id : r \in {q \in readings : InRange(q)}}
          /\ \A s \in DOMAIN last.ret :
                (ExactlyRows(last.ret[s], Matching(s)) /\ StrictlyDescending(last.ret[s]))

\* C5 amended: a range query returns exactly the stored readings (of the
\* sensor, resp. of every sensor, grouped by sensor_id) whose timestamp lies
\* within the supplied bounds, bounds included (a bound that is absent or
\* empty does not restrict), each once, and in each returned list timestamps
\* never increase; readings of equal timestamp appear in any order.
C5_RangeDescending ==
    /\ IsQueryOne =>
          (ExactlyRows(last.ret, Matching(last.path)) /\ NonIncreasing(last.ret))
    /\ IsQueryAll =>
          /\ DOMAIN last.ret = {r.sensor_id : r \in {q \in readings : InRange(q)}}
          /\ \A s \in DOMAIN last.ret :
                (ExactlyRows(last.ret[s], Matching(s)) /\ NonIncreasing(last.ret[s]))

\* C5 witness: a query of one sensor with both bounds at the same second
\* returned the two readings of that second and left out a later one.
C5_Witness ==
    /\ IsQueryOne
    /\ last.arg.from_timestamp = 0 /\ last.arg.to_timestamp = 0
    /\ Len(last.ret) = 2
    /\ last.ret[1].id < last.ret[2].id
    /\ \E r \in OfSensor(readings, last.path) : r.timestamp = 1

\* ---------------------------------------------------------------- C8
Sleeps == boot.slept = InitDelay * (IF boot.result = "exhausted"
                                    THEN boot.warnings - 1 ELSE boot.warnings)
NoRequestServed ==
    \A t \in Workers :
        /\ pc[t] = "idle"
        /\ local[t].top # "none" => local[t].epoch < released
BootCounts ==
    /\ boot.attempts <= InitRetries
    /\ boot.warnings = InitRetries - boot.retries
    /\ Sleeps
    /\ boot.result \in {"running", "ok", "exhausted", "error"}
    /\ boot.result = "running" => boot.attempts = boot.warnings
    /\ boot.result = "ok" => boot.attempts = boot.warnings + 1
    /\ boot.result = "error" => boot.attempts = boot.warnings + 1
    /\ boot.result = "exhausted" =>
           boot.attempts = InitRetries /\ boot.warnings = InitRetries
    /\ boot.result \in {"exhausted", "error"} => phase = "aborted"
    /\ phase \in {"start", "startup", "aborted"} => NoRequestServed
BootSteps ==
    /\ (boot.result # "running" /\ phase # "start") => boot' = boot
    /\ phase # "aborted"
    /\ boot'.attempts > boot.attempts =>
           /\ boot'.attempts = boot.attempts + 1
           /\ boot'.slept \in {boot.slept, boot.slept + InitDelay}

\* C8: init_db makes at most InitRetries attempts; every failed attempt logs one
\* warning and every failed attempt but the last is followed by one sleep of
\* InitDelay seconds; a success ends it with no further attempt; the
\* OperationalError of the last attempt, and any other exception on the attempt
\* where it occurs (no sleep, no further attempt), propagate and abort the
\* startup, after which nothing runs and no request has been served; and a
\* startup that began always ends, serving or aborted.
C8_InitDbBoundedRetries ==
    /\ []BootCounts
    /\ [][BootSteps]_vars
    /\ (phase = "startup" ~> phase \in {"serving", "aborted"})

\* C8 witness: startup aborted after the attempts ran out, nine sleeps behind it
C8_Witness ==
    /\ phase = "aborted"
    /\ boot.result = "exhausted"
    /\ boot.attempts = InitRetries
    /\ boot.warnings = InitRetries
    /\ boot.slept = InitDelay * (InitRetries - 1)

\* ---------------------------------------------------------------- C9
GotSession(t) == local[t].top \in {"get_db", "startup"} /\ local[t].done

\* C9 (as stated): after close_db, a session obtained once the engine has been
\* re-acquired is bound to the engine constructed since, never to a disposed one.
C9_SessionsBoundToLivePool ==
    \A t \in Threads :
        GotSession(t) => /\ ~local[t].stale
                         /\ local[t].ret = local[t].current

\* ---------------------------------------------------------------- C10
Acquired(t) == local[t].top \in {"get_engine", "init_db"} /\ local[t].engine # 0

\* C10: between releases at most one engine is constructed, its creation is
\* logged once, and any two get_engine calls that return without a release in
\* between return the same engine, however the handlers' calls interleave.
C10_OnePoolPerProcess ==
    /\ Len(engines) <= released + 1
    /\ createLog = Len(engines)
    /\ released = 0 => Len(engines) <= 1 /\ createLog <= 1
    /\ \A t1, t2 \in Threads :
           (Acquired(t1) /\ Acquired(t2) /\ local[t1].epoch = local[t2].epoch)
               => local[t1].engine = local[t2].engine

\* C10 witness: with nothing released, one handler has its engine while another
\* is inside get_engine, and a single engine exists
C10_Witness ==
    /\ released = 0
    /\ Len(engines) = 1
    /\ \E t1, t2 \in Workers :
           /\ t1 # t2
           /\ local[t1].top = "get_engine" /\ local[t1].done /\ local[t1].engine = 1
           /\ local[t2].top = "get_engine" /\ pc[t2] \in {"ge_check", "ge_return"}

====
